---- MODULE Spec2Model ----
(***************************************************************************)
(* English-Buddy: the conversation orchestration of src/app.py.             *)
(*                                                                         *)
(* The session store is the two module globals conversation_history and    *)
(* user_profile.  The three routes set_level, process_audio and            *)
(* end_conversation run in the worker threads of the development server,   *)
(* line by line and without a lock.  The external engines (Whisper, the    *)
(* Groq chat API, the speech API) are nondeterministic inputs of each      *)
(* request.                                                                *)
(*                                                                         *)
(* threads holds the locals of each worker, served counts the requests     *)
(* received, resp is the last answer sent and arrived the store as it was   *)
(* when the request a worker handles arrived.  llm is one call of          *)
(* get_llm_response with its retry loop, tts one call of text_to_speech;   *)
(* each has its own specification and stays idle in the others.            *)
(*                                                                         *)
(* A text is a sequence of tokens; the string it stands for is the         *)
(* concatenation of its tokens.  " " is one blank, "TASK:" is the          *)
(* sentinel, every other token is a word: a run of letters and digits.     *)
(***************************************************************************)
EXTENDS Integers, Sequences, FiniteSets, TLC

VARIABLES conversation_history, user_profile, resp, arrived, llm, tts,
          threads, served

vars == <<conversation_history, user_profile, resp, arrived, llm, tts,
          threads, served>>

\* The session store, the last response and the store of the requests in
\* progress when they arrived.
session == <<conversation_history, user_profile, resp, arrived>>

\* Longest turn sequence explored.
MaxTurns == 7

----------------------------------------------------------------------------
(* Texts *)

Sentinel == "TASK:"
Space == " "

\* "TASK:" in text
Contains(text) == \E i \in 1..Len(text) : text[i] = Sentinel

\* Position of the first sentinel of a text that holds one.
FirstSentinel(text) ==
    CHOOSE i \in 1..Len(text) :
        /\ text[i] = Sentinel
        /\ \A j \in 1..(i - 1) : text[j] # Sentinel

\* text.split("TASK:"): the pieces between the occurrences of the sentinel.
RECURSIVE SplitAll(_)
SplitAll(text) ==
    IF ~Contains(text) THEN <<text>>
    ELSE LET i == FirstSentinel(text)
         IN  <<SubSeq(text, 1, i - 1)>> \o SplitAll(SubSeq(text, i + 1, Len(text)))

\* The whole text after the first sentinel, later sentinels included.
AfterFirst(text) == SubSeq(text, FirstSentinel(text) + 1, Len(text))

\* The whole text before the first sentinel.
BeforeFirst(text) == SubSeq(text, 1, FirstSentinel(text) - 1)

RECURSIVE LStrip(_)
LStrip(text) ==
    IF text # <<>> /\ Head(text) = Space THEN LStrip(Tail(text)) ELSE text

RECURSIVE RStrip(_)
RStrip(text) ==
    IF text # <<>> /\ text[Len(text)] = Space
    THEN RStrip(SubSeq(text, 1, Len(text) - 1))
    ELSE text

\* str.strip()
Strip(text) == RStrip(LStrip(text))

----------------------------------------------------------------------------
(* Inputs of the requests *)

ValidLevels == {"Beginner", "Intermediate", "Advanced"}

\* user_profile["level"] before any set_level, and data.get('level') of a
\* body without the key.
NoLevel == "None"

\* The 'level' values the set_level requests carry: two of the valid ones,
\* one that is not valid, and none.
LevelInputs == {"Beginner", "Advanced", "Expert", NoLevel}

\* result["text"] of Whisper for the uploaded audio.
WhisperTexts == { <<"u">>, <<Space, "v", Space>> }

\* response.choices[0].message.content of the chat API.
ApiTexts ==
    { <<"ok">>,
      <<"ok", Space, Sentinel, Space, "t1">>,
      <<"ok", Sentinel, "t1", Sentinel, "t2">> }

\* message.content of a completion that carries no text (None).
NoContent == <<"<None>">>

\* Every value response.choices[0].message.content can take.
ApiContents == ApiTexts \cup {NoContent}

\* The fixed apology get_llm_response returns when every attempt failed.
Fallback == <<"sorry">>

max_retries == 3

\* get_llm_response: the first successful attempt's text; the fallback when
\* all max_retries attempts raise.  failures = attempts that raise before
\* the first success.
get_llm_response(failures, text) ==
    IF failures >= max_retries THEN Fallback ELSE text

\* Every value get_llm_response can return to a handler.
LlmReplies ==
    {get_llm_response(failures, text) : failures \in 0..max_retries,
                                        text \in ApiContents}

----------------------------------------------------------------------------
(* Session store *)

\* A value of the task mapping.  response is <<>> for None and <<t>> for
\* the text t.  id k is the key "task_k"; the mapping is kept in insertion
\* order, as a Python dict is.
Task(id, description, status, response) ==
    [id |-> id, description |-> description, status |-> status,
     response |-> response]

Turn(role, content) == [role |-> role, content |-> content]

EmptyProfile(level) ==
    [level |-> level, transcriptions |-> <<>>, task_responses |-> <<>>]

\* d[key] = value on a dict: an existing key keeps its place and takes the
\* new value, a new key goes last.
DictSet(d, key, value) ==
    IF \E i \in 1..Len(d) : d[i].id = key
    THEN [i \in 1..Len(d) |-> IF d[i].id = key THEN value ELSE d[i]]
    ELSE Append(d, value)

----------------------------------------------------------------------------
(* Prompts *)

NoPrompt == [variant |-> "none", level |-> NoLevel, directive |-> FALSE]

\* The greeting prompt of set_level.
GreetingPrompt(level) ==
    [variant |-> "greeting", level |-> level, directive |-> FALSE]

\* len(conversation_history) >= 4, the first operand of line 163.  The
\* second operand is evaluated only when the first holds.
LongEnough(turn_count) == turn_count >= 4

\* Mutant of should_assign_task: the number of tasks is not looked at.
should_assign_task_uncapped(turn_count, task_count) ==
    LongEnough(turn_count)

\* len(conversation_history) >= 4 and len(user_profile["task_responses"]) < 2
\* on the two lengths, each as it was when line 163 read it.
should_assign_task(turn_count, task_count) ==
    LongEnough(turn_count) /\ task_count < 2

\* generate_system_prompt: the feedback text for a task response, else the
\* base text with the "TASK:" directive spliced in when should_assign_task.
generate_system_prompt(level, is_task_response, assign) ==
    IF is_task_response
    THEN [variant |-> "feedback", level |-> level, directive |-> FALSE]
    ELSE [variant |-> "base", level |-> level, directive |-> assign]

----------------------------------------------------------------------------
(* process_audio, line by line *)

\* Index of the key in the mapping, 0 when the mapping does not hold it.
Index(d, key) ==
    IF \E i \in 1..Len(d) : d[i].id = key
    THEN CHOOSE i \in 1..Len(d) : d[i].id = key
    ELSE 0

\* key in d
HasKey(d, key) == Index(d, key) # 0

\* Mutant of IsAssigned: the loop does not test the status, so the first
\* task of the mapping takes every later utterance.
IsAssignedAlways(task) == TRUE

\* task["status"] == "assigned"
IsAssigned(task) == task.status = "assigned"

\* d[task_id]["response"] = transcription
SetResponse(d, key, transcription) ==
    [i \in 1..Len(d) |->
        IF d[i].id = key THEN [d[i] EXCEPT !.response = <<transcription>>]
        ELSE d[i]]

\* Mutant of SetStatus: the response is stored but the status stays
\* "assigned".
SetStatusKept(d, key) == d

\* d[task_id]["status"] = "completed"
SetStatus(d, key) ==
    [i \in 1..Len(d) |->
        IF d[i].id = key THEN [d[i] EXCEPT !.status = "completed"] ELSE d[i]]

\* Mutant of ComposePrompt: the prompt is composed before the routing loop
\* has set is_task_response.
ComposePromptBeforeRouting(level, routed, assign) ==
    generate_system_prompt(level, FALSE, assign)

\* The system prompt of the upcoming assistant turn, composed after the
\* routing loop has run.
ComposePrompt(level, routed, assign) ==
    generate_system_prompt(level, routed, assign)

\* task_parts[0].strip() when the sentinel is present, else the response.
VisibleReply(response) ==
    IF Contains(response) THEN Strip(SplitAll(response)[1]) ELSE response

\* task_parts[1].strip()
TaskDescription(response) == Strip(SplitAll(response)[2])

\* Mutant of NextTaskId: the count is taken without the + 1 once a task
\* exists, so the key of the latest task is used again.
NextTaskIdReused(d) == IF d = <<>> THEN 1 ELSE Len(d)

\* len(user_profile['task_responses']) + 1, the k of the key "task_k".
NextTaskId(d) == Len(d) + 1

----------------------------------------------------------------------------
(* Responses *)

Response(op, status, transcription, raw, response, prompt, routed) ==
    [op |-> op, status |-> status, transcription |-> transcription,
     raw |-> raw, response |-> response, prompt |-> prompt, routed |-> routed,
     error |-> ""]

\* No answer since the last request arrived.
NoResponse == Response("none", 0, <<>>, <<>>, <<>>, NoPrompt, FALSE)

\* str(e) of the exception transcribe_audio re-raises.
TranscriptionError == "transcription failed"

\* str(e) of the TypeError that "TASK:" in response raises for None.
ContentTypeError == "argument of type 'NoneType' is not iterable"

\* str(e) of the RuntimeError the iterator of a dict raises once the dict
\* has another number of keys than when the iteration began.
DictSizeError == "dictionary changed size during iteration"

\* str(e) of the KeyError of a lookup of "task_k" in a mapping without it.
KeyErrorText(key) == "'task_" \o ToString(key) \o "'"

\* The body of a 400 answer.
BadRequest == "bad request"

\* The answer of a handler that ends in an error: 400 from a guard, 500 from
\* the except clause of process_audio with str(e).
Failed(op, status, error, transcription, raw, prompt, routed) ==
    [Response(op, status, transcription, raw, <<>>, prompt, routed)
        EXCEPT !.error = error]

----------------------------------------------------------------------------
(* Requests *)

\* app.run serves each request in a worker thread of its own and the
\* handlers take no lock: a thread can be suspended between any two lines,
\* and inside a line after each call it makes.  A step of a thread runs up
\* to and including one read or write of the two globals; what comes
\* before it in the step touches locals only.  Line 163 reads the globals
\* in two calls of len and is two steps; every other line reads or writes
\* them once.  pc names the line that ends the thread's next step.  A
\* client that waits for each answer before its next request keeps one
\* worker busy at a time.

\* The requests a server whose clients do not wait receives.
MaxRequests == 3

\* The most requests in progress at a time.  app.run starts a thread for
\* each request and sets no limit; a request that arrives while this many
\* are in progress is followed from the moment one of them has answered.
MaxThreads == 2

\* The worker threads of that server.
Threads == 1..MaxThreads

\* A local that names no object.
NoRef == [is |-> "none", object |-> <<>>]

\* A local that names the object a global names now: reading it reads the
\* store.
Live == [is |-> "live", object |-> <<>>]

\* A local that names an object no global names any more.  Every write of
\* the handlers goes through a global, so such an object keeps its value.
Old(value) == [is |-> "old", object |-> <<value>>]

\* The value of the object a local names.
Deref(ref, current) == IF ref.is = "live" THEN current ELSE ref.object[1]

\* The local after the global was bound to a new object.
Detach(ref, current) == IF ref.is = "live" THEN Old(current) ELSE ref

\* No iteration in progress.
NoItems == [is |-> "none", object |-> <<>>, size |-> 0, pos |-> 0]

\* iter(d.items()): the iterator remembers the number of keys of d.
Items(d) == [is |-> "live", object |-> <<>>, size |-> Len(d), pos |-> 0]

\* No call of get_llm_response in progress.
LlmIdle ==
    [pc |-> "idle", outcomes |-> <<>>, attempt |-> 0, calls |-> 0,
     sleeps |-> <<>>, result |-> <<>>]

\* No call of text_to_speech in progress.
TtsIdle ==
    [pc |-> <<"idle", 0>>, status |-> 0, primary_raises |-> 0, tone_raises |-> 0,
     result |-> ""]

\* The locals of a thread that holds no request.
ThreadIdle ==
    [pc |-> "idle", level |-> NoLevel, transcription |-> <<>>,
     routed |-> FALSE, prompt |-> NoPrompt, raw |-> <<>>, response |-> <<>>,
     task_id |-> 0, task |-> NoRef, items |-> NoItems, turn_count |-> 0,
     user_profile |-> NoRef, conversation_history |-> NoRef,
     user_messages |-> <<>>, common_mistakes |-> <<>>]

\* Nothing in progress in a server with these workers.
CallsIdle(workers) ==
    /\ llm = LlmIdle
    /\ tts = TtsIdle
    /\ threads = [t \in workers |-> ThreadIdle]
    /\ served = 0
    /\ arrived = [t \in workers |-> <<>>]

\* The store of a freshly started process.
InitSession ==
    /\ conversation_history = <<>>
    /\ user_profile = EmptyProfile(NoLevel)
    /\ resp = NoResponse

\* The server as app.run starts it.
Init == InitSession /\ CallsIdle(Threads)

\* The server with clients that send one request at a time.
InitSerial == InitSession /\ CallsIdle({1})

\* The worker threads of this server.
Workers == DOMAIN threads

\* The worker t is about to execute the line.
At(t, line) == t \in Workers /\ threads[t].pc = line

\* The worker that takes the next request: the idle one with the lowest
\* number.
Free(t) ==
    /\ At(t, "idle")
    /\ \A u \in Workers : u < t => threads[u].pc # "idle"

\* A request arrives.  A server with one worker is followed for as long as
\* the history is short, one with several workers for MaxRequests requests.
Admit(t) ==
    /\ Free(t)
    /\ IF Cardinality(Workers) = 1
       THEN served' = served
       ELSE served < MaxRequests /\ served' = served + 1

\* The handler of thread t runs on with these locals.
Continue(t, locals) ==
    /\ threads' = [threads EXCEPT ![t] = locals]
    /\ UNCHANGED <<resp, arrived>>

\* The handler of thread t begins with these locals; the other threads have
\* the locals given.  The store at this moment is kept for a request that
\* is handled alone, where its answer can be compared with it.
Begin(t, locals, others) ==
    /\ threads' = [u \in Workers |-> IF u = t THEN locals ELSE others[u]]
    /\ arrived' = IF Cardinality(Workers) = 1
                  THEN [arrived EXCEPT ![t] =
                           << <<conversation_history, user_profile>> >>]
                  ELSE arrived
    /\ resp' = NoResponse

\* The handler of thread t returns this answer.
Answer(t, answer) ==
    /\ resp' = answer
    /\ threads' = [threads EXCEPT ![t] = ThreadIdle]
    /\ arrived' = [arrived EXCEPT ![t] = <<>>]

----------------------------------------------------------------------------
(* POST /set_level *)

\* Mutant of ResetProfile: only the level is replaced, the task mapping of
\* the previous session stays.
ResetProfileKeepTasks(level, profile) ==
    [profile EXCEPT !.level = level, !.transcriptions = <<>>]

\* Mutant of ResetProfile: the transcriptions of the previous session stay.
ResetProfileKeepTranscriptions(level, profile) ==
    [profile EXCEPT !.level = level, !.task_responses = <<>>]

\* What line 45 binds user_profile to.
ResetProfile(level, profile) == EmptyProfile(level)

\* The locals of another thread once line 44 has bound conversation_history
\* to a new list.
AfterResetHistory(locals) ==
    [locals EXCEPT !.conversation_history = Detach(@, conversation_history)]

\* The locals of another thread once line 45 has bound user_profile to a new
\* dict: its iterator and its task are those of the old mapping.
AfterResetProfile(locals) ==
    LET d == user_profile.task_responses
    IN  [locals EXCEPT
            !.user_profile = Detach(@, user_profile),
            !.items = IF @.is = "live"
                      THEN [@ EXCEPT !.is = "old", !.object = <<d>>] ELSE @,
            !.task = IF @.is = "live"
                     THEN Old(d[Index(d, locals.task_id)]) ELSE @]

\* Lines 36-44: the level is validated and the history replaced.
LevelReceive(t) ==
    /\ Admit(t)
    /\ UNCHANGED <<user_profile, llm, tts>>
    /\ \E level \in LevelInputs :
        IF level \notin ValidLevels
        THEN /\ Answer(t, Failed("set_level", 400, BadRequest, <<>>, <<>>,
                                 NoPrompt, FALSE))
             /\ UNCHANGED conversation_history
        ELSE /\ conversation_history' = <<>>
             /\ Begin(t, [ThreadIdle EXCEPT !.pc = "line 45", !.level = level],
                      [u \in Workers |-> AfterResetHistory(threads[u])])

\* Lines 45-49.
LevelResetProfile(t) ==
    /\ At(t, "line 45")
    /\ user_profile' = ResetProfile(threads[t].level, user_profile)
    /\ threads' = [u \in Workers |->
                      IF u = t THEN [threads[t] EXCEPT !.pc = "line 59"]
                      ELSE AfterResetProfile(threads[u])]
    /\ UNCHANGED <<conversation_history, resp, arrived, llm, tts, served>>

\* Lines 52-62: the greeting is generated, spoken and appended.
LevelGreet(t) ==
    /\ At(t, "line 59")
    /\ \E reply \in LlmReplies :
        /\ conversation_history' =
               Append(conversation_history, Turn("assistant", reply))
        /\ Continue(t, [threads[t] EXCEPT
                           !.pc = "line 64",
                           !.prompt = GreetingPrompt(threads[t].level),
                           !.raw = reply, !.response = reply])
    /\ UNCHANGED <<user_profile, llm, tts, served>>

\* Lines 64-67.
LevelAnswer(t) ==
    /\ At(t, "line 64")
    /\ LET my == threads[t]
       IN  Answer(t, Response("set_level", 200, <<>>, my.raw, my.response,
                              my.prompt, FALSE))
    /\ UNCHANGED <<conversation_history, user_profile, llm, tts, served>>

----------------------------------------------------------------------------
(* POST /process_audio *)

\* Mutant of StoreOnTranscribeError: the user turn is appended before the
\* transcriber is called, so its failure leaves an empty turn behind.
StoreOnTranscribeErrorPartial(history, profile) ==
    <<Append(history, Turn("user", <<>>)), profile>>

\* The store when transcribe_audio raises: the except clause is reached
\* before any statement that writes the store.
StoreOnTranscribeError(history, profile) == <<history, profile>>

\* The 500 answer of the except clause.
Raise(t, error) ==
    LET my == threads[t]
    IN  Answer(t, Failed("process_audio", 500, error, my.transcription,
                         my.raw, my.prompt, my.routed))

\* Lines 71-83: the upload is tested and transcribed.
AudioReceive(t) ==
    /\ Admit(t)
    /\ UNCHANGED <<llm, tts>>
    /\ \E has_audio \in BOOLEAN :
        IF ~has_audio
        THEN /\ Answer(t, Failed("process_audio", 400, BadRequest, <<>>, <<>>,
                                 NoPrompt, FALSE))
             /\ UNCHANGED <<conversation_history, user_profile>>
        ELSE \E heard \in BOOLEAN :
        IF ~heard
        THEN /\ Answer(t, Failed("process_audio", 500, TranscriptionError,
                                 <<>>, <<>>, NoPrompt, FALSE))
             /\ conversation_history' =
                    StoreOnTranscribeError(conversation_history, user_profile)[1]
             /\ user_profile' =
                    StoreOnTranscribeError(conversation_history, user_profile)[2]
        ELSE \E words \in WhisperTexts :
             /\ Len(conversation_history) + 2 <= MaxTurns
             /\ Begin(t, [ThreadIdle EXCEPT !.pc = "line 84",
                                            !.transcription = Strip(words)],
                      threads)
             /\ UNCHANGED <<conversation_history, user_profile>>

\* Line 84.
AudioAppendTranscription(t) ==
    /\ At(t, "line 84")
    /\ user_profile' = [user_profile EXCEPT !.transcriptions =
                            Append(@, threads[t].transcription)]
    /\ Continue(t, [threads[t] EXCEPT !.pc = "line 87"])
    /\ UNCHANGED <<conversation_history, llm, tts, served>>

\* Lines 87-93.
AudioAppendTurn(t) ==
    /\ At(t, "line 87")
    /\ conversation_history' =
           Append(conversation_history, Turn("user", threads[t].transcription))
    /\ Continue(t, [threads[t] EXCEPT !.pc = "line 94", !.routed = FALSE])
    /\ UNCHANGED <<user_profile, llm, tts, served>>

\* Line 94: the for statement takes the next item of the mapping.  The
\* first time it makes the iterator from the mapping user_profile names;
\* the iterator raises when the mapping has another number of keys than
\* then, and ends the loop after the last item.
AudioNextTask(t) ==
    /\ At(t, "line 94")
    /\ LET my == threads[t]
           it == IF my.items.is = "none"
                 THEN Items(user_profile.task_responses) ELSE my.items
           d == Deref(it, user_profile.task_responses)
       IN  IF Len(d) # it.size
           THEN Raise(t, DictSizeError)
           ELSE IF it.pos >= Len(d)
           THEN Continue(t, [my EXCEPT !.pc = "line 102", !.items = NoItems,
                                       !.task_id = 0, !.task = NoRef])
           ELSE Continue(t, [my EXCEPT
                                !.pc = "line 95",
                                !.items = [it EXCEPT !.pos = @ + 1],
                                !.task_id = d[it.pos + 1].id,
                                !.task = IF it.is = "live" THEN Live
                                         ELSE Old(d[it.pos + 1])])
    /\ UNCHANGED <<conversation_history, user_profile, llm, tts, served>>

\* Line 95: the status of the task the loop holds.
AudioTestStatus(t) ==
    /\ At(t, "line 95")
    /\ LET my == threads[t]
           d == user_profile.task_responses
           task == IF my.task.is = "live" THEN d[Index(d, my.task_id)]
                   ELSE my.task.object[1]
       IN  Continue(t, [my EXCEPT !.pc = IF IsAssigned(task) THEN "line 96"
                                         ELSE "line 94"])
    /\ UNCHANGED <<conversation_history, user_profile, llm, tts, served>>

\* Line 96: the response is written through user_profile, which raises
\* KeyError when the mapping it names now does not hold the key.
AudioSetResponse(t) ==
    /\ At(t, "line 96")
    /\ LET my == threads[t]
           d == user_profile.task_responses
       IN  IF ~HasKey(d, my.task_id)
           THEN /\ Raise(t, KeyErrorText(my.task_id))
                /\ UNCHANGED user_profile
           ELSE /\ user_profile' =
                      [user_profile EXCEPT !.task_responses =
                          SetResponse(d, my.task_id, my.transcription)]
                /\ Continue(t, [my EXCEPT !.pc = "line 97"])
    /\ UNCHANGED <<conversation_history, llm, tts, served>>

\* Lines 97-99: the status is written the same way and the loop is left.
AudioSetStatus(t) ==
    /\ At(t, "line 97")
    /\ LET my == threads[t]
           d == user_profile.task_responses
       IN  IF ~HasKey(d, my.task_id)
           THEN /\ Raise(t, KeyErrorText(my.task_id))
                /\ UNCHANGED user_profile
           ELSE /\ user_profile' =
                      [user_profile EXCEPT !.task_responses =
                          SetStatus(d, my.task_id)]
                /\ Continue(t, [my EXCEPT !.pc = "line 102", !.routed = TRUE,
                                          !.items = NoItems, !.task_id = 0,
                                          !.task = NoRef])
    /\ UNCHANGED <<conversation_history, llm, tts, served>>

\* Line 102 and lines 149-154: the level is read and handed to
\* generate_system_prompt, which returns the feedback text for a task
\* response without reading the store.
AudioLevel(t) ==
    /\ At(t, "line 102")
    /\ LET my == threads[t]
           level == user_profile.level
       IN  IF my.routed
           THEN Continue(t, [my EXCEPT
                                !.pc = "line 112", !.level = level,
                                !.prompt = ComposePrompt(level, my.routed, FALSE)])
           ELSE Continue(t, [my EXCEPT !.pc = "line 163", !.level = level])
    /\ UNCHANGED <<conversation_history, user_profile, llm, tts, served>>

\* Line 163, first operand: len(conversation_history) is read.  A history
\* that is too short decides the test, and lines 164-190 return the base
\* text without the directive.
AudioDirective(t) ==
    /\ At(t, "line 163")
    /\ LET my == threads[t]
           turn_count == Len(conversation_history)
       IN  IF LongEnough(turn_count)
           THEN Continue(t, [my EXCEPT !.pc = "line 163, second operand",
                                       !.turn_count = turn_count])
           ELSE Continue(t, [my EXCEPT
                                !.pc = "line 112",
                                !.prompt = ComposePrompt(my.level, my.routed,
                                                         FALSE)])
    /\ UNCHANGED <<conversation_history, user_profile, llm, tts, served>>

\* Line 163, second operand, and lines 164-190:
\* len(user_profile["task_responses"]) is read and the base text returned.
AudioDirectiveTasks(t) ==
    /\ At(t, "line 163, second operand")
    /\ LET my == threads[t]
           task_count == Len(user_profile.task_responses)
       IN  Continue(t, [my EXCEPT
                           !.pc = "line 112", !.turn_count = 0,
                           !.prompt = ComposePrompt(my.level, my.routed,
                               should_assign_task(my.turn_count, task_count))])
    /\ UNCHANGED <<conversation_history, user_profile, llm, tts, served>>

\* Lines 103-112: the reply arrives; None raises TypeError at line 106; a
\* reply with the sentinel is split and the key of its task computed.
AudioReply(t) ==
    /\ At(t, "line 112")
    /\ \E reply \in LlmReplies :
        LET my == [threads[t] EXCEPT !.raw = reply]
        IN  IF reply = NoContent
            THEN Answer(t, Failed("process_audio", 500, ContentTypeError,
                                  my.transcription, my.raw, my.prompt, my.routed))
            ELSE IF Contains(reply)
            THEN Continue(t, [my EXCEPT
                                 !.pc = "line 113",
                                 !.response = VisibleReply(reply),
                                 !.task_id = NextTaskId(user_profile.task_responses)])
            ELSE Continue(t, [my EXCEPT !.pc = "line 120",
                                        !.response = VisibleReply(reply)])
    /\ UNCHANGED <<conversation_history, user_profile, llm, tts, served>>

\* The locals of another thread once line 113 has stored a new record under
\* the key: a task the thread took from under that key is the old record.
AfterRegister(locals, key) ==
    LET d == user_profile.task_responses
    IN  IF locals.task.is = "live" /\ locals.task_id = key /\ HasKey(d, key)
        THEN [locals EXCEPT !.task = Old(d[Index(d, key)])]
        ELSE locals

\* Lines 113-117.
AudioRegister(t) ==
    /\ At(t, "line 113")
    /\ LET my == threads[t]
       IN  /\ user_profile' =
                 [user_profile EXCEPT !.task_responses =
                     DictSet(@, my.task_id,
                             Task(my.task_id, TaskDescription(my.raw),
                                  "assigned", <<>>))]
           /\ threads' = [u \in Workers |->
                             IF u = t
                             THEN [my EXCEPT !.pc = "line 120", !.task_id = 0]
                             ELSE AfterRegister(threads[u], my.task_id)]
    /\ UNCHANGED <<conversation_history, resp, arrived, llm, tts, served>>

\* Lines 120-123.
AudioAppendReply(t) ==
    /\ At(t, "line 120")
    /\ conversation_history' =
           Append(conversation_history, Turn("assistant", threads[t].response))
    /\ Continue(t, [threads[t] EXCEPT !.pc = "line 128"])
    /\ UNCHANGED <<user_profile, llm, tts, served>>

\* Lines 126-132.
AudioAnswer(t) ==
    /\ At(t, "line 128")
    /\ LET my == threads[t]
       IN  Answer(t, Response("process_audio", 200, my.transcription, my.raw,
                              my.response, my.prompt, my.routed))
    /\ UNCHANGED <<conversation_history, user_profile, llm, tts, served>>

----------------------------------------------------------------------------
(* Evaluation: src/modules/evaluator.py *)

\* The letters a to z and A to Z, in order.
LowerCase ==
    <<"a", "b", "c", "d", "e", "f", "g", "h", "i", "j", "k", "l", "m",
      "n", "o", "p", "q", "r", "s", "t", "u", "v", "w", "x", "y", "z">>

UpperCase ==
    <<"A", "B", "C", "D", "E", "F", "G", "H", "I", "J", "K", "L", "M",
      "N", "O", "P", "Q", "R", "S", "T", "U", "V", "W", "X", "Y", "Z">>

\* The characters of a word token.  The sentinel token is the word "TASK"
\* followed by a colon, which is no word character.
Letters(word) ==
    CASE word = "I" -> <<"I">>
      [] word = "am" -> <<"a", "m">>
      [] word = "agree" -> <<"a", "g", "r", "e", "e">>
      [] word = "disagree" -> <<"d", "i", "s", "a", "g", "r", "e", "e">>
      [] word = "is" -> <<"i", "s">>
      [] word = "consist" -> <<"c", "o", "n", "s", "i", "s", "t">>
      [] word = "consists" -> <<"c", "o", "n", "s", "i", "s", "t", "s">>
      [] word = "discuss" -> <<"d", "i", "s", "c", "u", "s", "s">>
      [] word = "about" -> <<"a", "b", "o", "u", "t">>
      [] word = "the" -> <<"t", "h", "e">>
      [] word = "running" -> <<"r", "u", "n", "n", "i", "n", "g">>
      [] word = "made" -> <<"m", "a", "d", "e">>
      [] word = "make" -> <<"m", "a", "k", "e">>
      [] word = "fun" -> <<"f", "u", "n">>
      [] word = "advice" -> <<"a", "d", "v", "i", "c", "e">>
      [] word = "to" -> <<"t", "o">>
      [] word = "for" -> <<"f", "o", "r">>
      [] word = "him" -> <<"h", "i", "m">>
      [] word = "look" -> <<"l", "o", "o", "k">>
      [] word = "forward" -> <<"f", "o", "r", "w", "a", "r", "d">>
      [] word = "meeting" -> <<"m", "e", "e", "t", "i", "n", "g">>
      [] word = "see" -> <<"s", "e", "e">>
      [] word = "Hello" -> <<"H", "e", "l", "l", "o">>
      [] word = "hello" -> <<"h", "e", "l", "l", "o">>
      [] word = "cat" -> <<"c", "a", "t">>
      [] word = "dog" -> <<"d", "o", "g">>
      [] word = "there" -> <<"t", "h", "e", "r", "e">>
      [] word = "hi" -> <<"h", "i">>
      [] word = "single" -> <<"s", "i", "n", "g", "l", "e">>
      [] word = "u" -> <<"u">>
      [] word = "v" -> <<"v">>
      [] word = "i" -> <<"i">>
      [] word = Sentinel -> <<"T", "A", "S", "K">>

\* str.lower() on a character.
LowerChar(c) ==
    IF \E i \in 1..Len(UpperCase) : UpperCase[i] = c
    THEN LowerCase[CHOOSE i \in 1..Len(UpperCase) : UpperCase[i] = c]
    ELSE c

\* str.lower() on a word: its characters, lowered.
Lower(word) ==
    [i \in 1..Len(Letters(word)) |-> LowerChar(Letters(word)[i])]

\* " ".join(messages)
RECURSIVE Join(_)
Join(messages) ==
    IF messages = <<>> THEN <<>>
    ELSE IF Len(messages) = 1 THEN messages[1]
    ELSE messages[1] \o <<Space>> \o Join(Tail(messages))

IsWord(token) == token # Space

\* re.findall(r'\b\w+\b', text.lower()): the words of the text, lowered.
FindWords(text) ==
    LET found == SelectSeq(text, IsWord)
    IN  [i \in 1..Len(found) |-> Lower(found[i])]

count_words(text) == Len(FindWords(text))

count_unique_words(text) ==
    LET words == FindWords(text)
    IN  Cardinality({words[i] : i \in 1..Len(words)})

\* The patterns are searched in the joined text, which holds words and
\* blanks: a silent message leaves two blanks side by side.  A position is
\* the index of a token, 0 is no position.

\* The first token that is no blank from position j on.
RECURSIVE SkipBlanks(_, _)
SkipBlanks(text, j) ==
    IF j > Len(text) THEN 0
    ELSE IF text[j] = Space THEN SkipBlanks(text, j + 1)
    ELSE j

\* \s+ after the word at i: the position of the word that follows one or
\* more blanks.
AfterBlanks(text, i) ==
    IF i = 0 \/ i + 1 > Len(text) \/ text[i + 1] # Space THEN 0
    ELSE SkipBlanks(text, i + 2)

\* A literal blank after the word at i: the position of the word that
\* follows exactly one blank.
AfterOneBlank(text, i) ==
    IF i = 0 \/ i + 2 > Len(text) \/ text[i + 1] # Space \/ text[i + 2] = Space
    THEN 0
    ELSE i + 2

\* The token at i is a word that, lowered, is one of the spellings.
WordIn(text, i, spellings) ==
    i # 0 /\ text[i] # Space /\ Lower(text[i]) \in spellings

\* The word begins with the prefix.
HasPrefix(letters, prefix) ==
    /\ Len(letters) >= Len(prefix)
    /\ SubSeq(letters, 1, Len(prefix)) = prefix

\* [a-z] under re.IGNORECASE, on a lowered character.
IsLetter(c) == \E i \in 1..Len(LowerCase) : LowerCase[i] = c

\* [a-z]+ing at the start of the word: one or more letters, then "ing",
\* ending at character j + 2.
GerundUpTo(letters, j) ==
    /\ j >= 2 /\ j + 2 <= Len(letters)
    /\ SubSeq(letters, j, j + 2) = <<"i", "n", "g">>
    /\ \A a \in 1..(j - 1) : IsLetter(letters[a])

\* ([a-z]+ing) with no boundary after it.
BeginsWithGerund(letters) ==
    \E j \in 1..Len(letters) : GerundUpTo(letters, j)

\* ([a-z]+ing)\b: the gerund ends where the word ends.
IsGerund(letters) == GerundUpTo(letters, Len(letters) - 2)

\* (\w+[^ing\s])\b: two or more characters, the last none of i, n, g.
EndsPlain(letters) ==
    /\ Len(letters) >= 2
    /\ letters[Len(letters)] \notin {"i", "n", "g"}

\* The spellings of the words the patterns name.
Spell_i == <<"i">>
Spell_am == <<"a", "m">>
Spell_agree == <<"a", "g", "r", "e", "e">>
Spell_disagree == <<"d", "i", "s", "a", "g", "r", "e", "e">>
Spell_the == <<"t", "h", "e">>
Spell_make == <<"m", "a", "k", "e">>
Spell_makes == <<"m", "a", "k", "e", "s">>
Spell_made == <<"m", "a", "d", "e">>
Spell_fun == <<"f", "u", "n">>
Spell_is == <<"i", "s">>
Spell_are == <<"a", "r", "e">>
Spell_was == <<"w", "a", "s">>
Spell_were == <<"w", "e", "r", "e">>
Spell_consist == <<"c", "o", "n", "s", "i", "s", "t">>
Spell_discuss == <<"d", "i", "s", "c", "u", "s", "s">>
Spell_about == <<"a", "b", "o", "u", "t">>
Spell_advice == <<"a", "d", "v", "i", "c", "e">>
Spell_to == <<"t", "o">>
Spell_for == <<"f", "o", "r">>
Spell_look == <<"l", "o", "o", "k">>
Spell_looks == <<"l", "o", "o", "k", "s">>
Spell_looked == <<"l", "o", "o", "k", "e", "d">>
Spell_forward == <<"f", "o", "r", "w", "a", "r", "d">>

\* (look|looks|looked)\s+forward\s+to\s+ from the word at i: the position
\* of the word after "to".
AfterLookForwardTo(text, i) ==
    LET forward == AfterBlanks(text, i)
        to == AfterBlanks(text, forward)
    IN  IF /\ WordIn(text, i, {Spell_look, Spell_looks, Spell_looked})
           /\ WordIn(text, forward, {Spell_forward})
           /\ WordIn(text, to, {Spell_to})
        THEN AfterBlanks(text, to)
        ELSE 0

\* re.search(patterns[k][0], text, re.IGNORECASE)
PatternMatches(k, text) ==
    \E i \in 1..Len(text) :
        CASE k = 1 ->
                LET am == AfterOneBlank(text, i)
                    verb == AfterOneBlank(text, am)
                IN  /\ WordIn(text, i, {Spell_i})
                    /\ WordIn(text, am, {Spell_am})
                    /\ verb # 0
                    /\ \/ HasPrefix(Lower(text[verb]), Spell_agree)
                       \/ HasPrefix(Lower(text[verb]), Spell_disagree)
          [] k = 2 ->
                LET gerund == AfterBlanks(text, i)
                IN  /\ WordIn(text, i, {Spell_the})
                    /\ gerund # 0
                    /\ IsGerund(Lower(text[gerund]))
          [] k = 3 ->
                /\ WordIn(text, i, {Spell_make, Spell_makes, Spell_made})
                /\ WordIn(text, AfterBlanks(text, i), {Spell_fun})
          [] k = 4 ->
                LET verb == AfterBlanks(text, i)
                IN  /\ WordIn(text, i, {Spell_is, Spell_are, Spell_was, Spell_were})
                    /\ verb # 0
                    /\ HasPrefix(Lower(text[verb]), Spell_consist)
          [] k = 5 ->
                /\ WordIn(text, i, {Spell_discuss})
                /\ WordIn(text, AfterBlanks(text, i), {Spell_about})
          [] k = 6 ->
                LET to == AfterBlanks(text, i)
                IN  /\ WordIn(text, i, {Spell_advice})
                    /\ WordIn(text, to, {Spell_to, Spell_for})
                    /\ AfterBlanks(text, to) # 0
          [] k = 7 ->
                LET word == AfterLookForwardTo(text, i)
                IN  word # 0 /\ BeginsWithGerund(Lower(text[word]))
          [] k = 8 ->
                LET word == AfterLookForwardTo(text, i)
                IN  word # 0 /\ EndsPlain(Lower(text[word]))
          [] OTHER -> FALSE

\* patterns[k][1]
Description(k) ==
    CASE k = 1 -> "Using 'I am agree' instead of 'I agree'"
      [] k = 2 -> "Potentially incorrect use of 'the' with gerund"
      [] k = 3 -> "Using 'make fun' instead of 'have fun'"
      [] k = 4 -> "Using 'is consist of' instead of 'consists of'"
      [] k = 5 -> "Using 'discuss about' instead of just 'discuss'"
      [] k = 6 -> "Using 'advice to' instead of 'advise'"
      [] k = 7 -> "Correct use of 'look forward to' + gerund"
      [] OTHER -> "Incorrect use of 'look forward to' without gerund"

\* The indices of the patterns list.
Patterns == 1..8

\* set(mistakes): the descriptions of the patterns that match.
MatchedDescriptions(text) ==
    {Description(k) : k \in {j \in Patterns : PatternMatches(j, text)}}

Min(a, b) == IF a <= b THEN a ELSE b

\* The lists without repetition of n elements of a set.
Arrangements(set, n) ==
    {list \in [1..n -> set] : \A i, j \in 1..n : list[i] = list[j] => i = j}

\* Mutant of extract_common_mistakes: the slice [:3] is left out.
extract_common_mistakes_unsliced(text) ==
    Arrangements(MatchedDescriptions(text),
                 Cardinality(MatchedDescriptions(text)))

\* extract_common_mistakes: list(set(mistakes))[:3].  A set of strings is
\* listed in an order that changes from run to run, so every list of the
\* first 3 elements of an ordering is a possible result.
extract_common_mistakes(text) ==
    Arrangements(MatchedDescriptions(text),
                 Min(3, Cardinality(MatchedDescriptions(text))))

\* The numbers of the report are floats: n / d is the double nearest to
\* the quotient, with a mantissa of 53 bits, and round(x, 1) is the tenth
\* nearest to that double.  When the quotient lies halfway between two
\* tenths the double lies beside it (or on it), and that decides the
\* tenth.  The double is m * 2^-s with 2^52 <= m < 2^53; what is computed
\* of it are the last bits of m and the deviation from the quotient.

\* floor(log2(n / d)) for n, d > 0.
RECURSIVE Log2Up(_, _, _)
Log2Up(n, d, e) == IF n >= 2 * d * 2 ^ e THEN Log2Up(n, d, e + 1) ELSE e

RECURSIVE Log2Down(_, _, _)
Log2Down(n, d, e) == IF n * 2 ^ e < d THEN Log2Down(n, d, e + 1) ELSE 0 - e

FloorLog2(n, d) == IF n >= d THEN Log2Up(n, d, 0) ELSE Log2Down(n, d, 1)

\* n * 2^s modulo m.
RECURSIVE ShiftMod(_, _, _)
ShiftMod(n, s, m) == IF s = 0 THEN n % m ELSE (2 * ShiftMod(n, s - 1, m)) % m

\* n / d as a double, n, d > 0: scale the position s of its last bit, low
\* its mantissa modulo 256, and deviation / d how far the mantissa lies
\* above n * 2^s / d.
Divide(n, d) ==
    LET s == 52 - FloorLog2(n, d)
        a == ShiftMod(n, s, 256 * d)
        q == a \div d
        r == a % d
        up == IF 2 * r > d \/ (2 * r = d /\ q % 2 = 1) THEN 1 ELSE 0
    IN  [scale |-> s, low |-> (q + up) % 256, deviation |-> up * d - r]

\* x * 100 for the double x = Divide(n, d): the sign of what the product,
\* rounded to 53 bits, lies above 100 * n / d.
TimesHundred(n, d) ==
    LET x == Divide(n, d)
        e == 59 - x.scale
        small == IF e >= 0 THEN 100 * n < 2 ^ e * d
                 ELSE 100 * n * 2 ^ (0 - e) < d
        k == IF small THEN 6 ELSE 7
        p == (100 * x.low) % 2 ^ (k + 1)
        r == p % 2 ^ k
        odd == p \div 2 ^ k = 1
        up == IF r > 2 ^ (k - 1) \/ (r = 2 ^ (k - 1) /\ odd) THEN 1 ELSE 0
    IN  d * (up * 2 ^ k - r) + 100 * x.deviation

\* Mutant of RoundTenths: the digits after the first decimal are cut off.
TruncateTenths(n, d, deviation) == (10 * n) \div d

\* round(x, 1) in tenths, for a double x that is n / d or lies beside it,
\* above when deviation > 0 and below when deviation < 0: the nearest
\* tenth, and at a tie the tenth on the side of x, the even one when x is
\* the quotient itself.
RoundTenths(n, d, deviation) ==
    LET q == (10 * n) \div d
        r == (10 * n) % d
    IN  IF 2 * r > d THEN q + 1
        ELSE IF 2 * r < d THEN q
        ELSE IF deviation > 0 THEN q + 1
        ELSE IF deviation < 0 THEN q
        ELSE IF q % 2 = 1 THEN q + 1 ELSE q

\* round(word_count / len(user_messages), 1), in tenths.
RoundQuotient(n, d) ==
    IF n = 0 THEN 0 ELSE RoundTenths(n, d, Divide(n, d).deviation)

\* round(unique_words / word_count * 100, 1), in tenths.
RoundPercent(n, d) ==
    IF n = 0 THEN 0 ELSE RoundTenths(100 * n, d, TimesHundred(n, d))

\* The prompt get_detailed_evaluation sends.
EvaluationPrompt(level) ==
    [variant |-> "evaluation", level |-> level, directive |-> FALSE]

\* Mutant of NothingToEvaluate: the test reads the task mapping.
NothingToEvaluateTasks(profile) == profile.task_responses = <<>>

\* not transcriptions
NothingToEvaluate(profile) == profile.transcriptions = <<>>

\* The result returned when there is nothing to evaluate.
ErrorReport ==
    [error |-> "No speech detected to evaluate", level |-> NoLevel,
     word_count |-> 0, avg_words_per_message |-> 0, vocabulary_richness |-> 0,
     common_mistakes |-> <<>>, detailed_evaluation |-> <<>>]

\* [msg["content"] for msg in conversation_history if msg["role"] == "user"]
RECURSIVE UserMessages(_)
UserMessages(history) ==
    IF history = <<>> THEN <<>>
    ELSE IF Head(history).role = "user"
         THEN <<Head(history).content>> \o UserMessages(Tail(history))
         ELSE UserMessages(Tail(history))

\* The report of evaluate_conversation, lines 27-48.  The two rounded
\* numbers are in tenths (15 is 1.5, 667 is 66.7).  mistakes is the list
\* extract_common_mistakes returned and narrative the text
\* get_detailed_evaluation returned.
evaluate_conversation(level, user_messages, mistakes, narrative) ==
    LET text == Join(user_messages)
        word_count == count_words(text)
        unique_words == count_unique_words(text)
    IN  [error |-> "",
         level |-> level,
         word_count |-> word_count,
         avg_words_per_message |->
             IF user_messages # <<>>
             THEN RoundQuotient(word_count, Len(user_messages)) ELSE 0,
         vocabulary_richness |->
             IF word_count > 0
             THEN RoundPercent(unique_words, word_count) ELSE 0,
         common_mistakes |-> mistakes,
         detailed_evaluation |-> narrative]

\* Mutant of StoreAfterEvaluation: the transcriptions are consumed by the
\* evaluation.
StoreAfterEvaluationConsumed(history, profile) ==
    <<history, [profile EXCEPT !.transcriptions = <<>>]>>

\* The store after evaluate_conversation: it reads user_profile and
\* conversation_history and writes neither.
StoreAfterEvaluation(history, profile) == <<history, profile>>

----------------------------------------------------------------------------
(* POST /end_conversation *)

\* The answer of end_conversation.
Evaluation(t, narrative, report, prompt) ==
    /\ Answer(t, Response("end_conversation", 200, <<>>, narrative, <<report>>,
                          prompt, FALSE))
    /\ conversation_history' =
           StoreAfterEvaluation(conversation_history, user_profile)[1]
    /\ user_profile' =
           StoreAfterEvaluation(conversation_history, user_profile)[2]

\* app.py line 143 and evaluator.py lines 15-16: the objects the two
\* globals name are handed to evaluate_conversation and the level is read.
EndReceive(t) ==
    /\ Admit(t)
    /\ Begin(t, [ThreadIdle EXCEPT !.pc = "evaluator line 18",
                                   !.level = user_profile.level,
                                   !.user_profile = Live,
                                   !.conversation_history = Live],
             threads)
    /\ UNCHANGED <<conversation_history, user_profile, llm, tts>>

\* evaluator.py lines 18-21: the transcriptions of the profile it was given.
EndTest(t) ==
    /\ At(t, "evaluator line 18")
    /\ IF NothingToEvaluate(Deref(threads[t].user_profile, user_profile))
       THEN Evaluation(t, <<>>, ErrorReport, NoPrompt)
       ELSE /\ Continue(t, [threads[t] EXCEPT !.pc = "evaluator line 24"])
            /\ UNCHANGED <<conversation_history, user_profile>>
    /\ UNCHANGED <<llm, tts, served>>

\* evaluator.py lines 24-35: the user messages of the history it was given,
\* and the mistakes found in them.
EndCollect(t) ==
    /\ At(t, "evaluator line 24")
    /\ LET user_messages ==
               UserMessages(Deref(threads[t].conversation_history,
                                  conversation_history))
       IN  \E mistakes \in extract_common_mistakes(Join(user_messages)) :
               Continue(t, [threads[t] EXCEPT
                               !.pc = "evaluator line 38",
                               !.user_messages = user_messages,
                               !.common_mistakes = mistakes])
    /\ UNCHANGED <<conversation_history, user_profile, llm, tts, served>>

\* evaluator.py lines 38-50 and app.py lines 145-147: the narrative arrives
\* and the report is returned.
EndAnswer(t) ==
    /\ At(t, "evaluator line 38")
    /\ \E narrative \in LlmReplies :
        LET my == threads[t]
        IN  Evaluation(t, narrative,
                       evaluate_conversation(my.level, my.user_messages,
                                             my.common_mistakes, narrative),
                       EvaluationPrompt(my.level))
    /\ UNCHANGED <<llm, tts, served>>

----------------------------------------------------------------------------
(* The server *)

Next ==
    \E t \in Threads :
        \/ LevelReceive(t)
        \/ LevelResetProfile(t)
        \/ LevelGreet(t)
        \/ LevelAnswer(t)
        \/ AudioReceive(t)
        \/ AudioAppendTranscription(t)
        \/ AudioAppendTurn(t)
        \/ AudioNextTask(t)
        \/ AudioTestStatus(t)
        \/ AudioSetResponse(t)
        \/ AudioSetStatus(t)
        \/ AudioLevel(t)
        \/ AudioDirective(t)
        \/ AudioDirectiveTasks(t)
        \/ AudioReply(t)
        \/ AudioRegister(t)
        \/ AudioAppendReply(t)
        \/ AudioAnswer(t)
        \/ EndReceive(t)
        \/ EndTest(t)
        \/ EndCollect(t)
        \/ EndAnswer(t)

\* Requests handled in several threads.
Spec == Init /\ [][Next]_vars

\* Requests handled one at a time.
SpecSerial == InitSerial /\ [][Next]_vars

----------------------------------------------------------------------------
(* The evaluation applied to spoken texts with several words *)

\* Most user turns of a session drawn for the evaluation.
MaxMessages == 2

\* Texts a user may speak: every mistake pattern occurs in one of them, two
\* hold two patterns, one holds a repeated word and no pattern, one is
\* silence.
EvalMessages ==
    { <<"I", Space, "am", Space, "agree", Space, "is", Space, "consist">>,
      <<"discuss", Space, "about", Space, "the", Space, "running">>,
      <<"made", Space, "fun">>,
      <<"advice", Space, "to", Space, "him">>,
      <<"look", Space, "forward", Space, "to", Space, "meeting">>,
      <<"look", Space, "forward", Space, "to", Space, "see">>,
      <<"Hello", Space, "hello">>,
      <<>> }

\* n messages, each the text given.
Times(n, text) == [i \in 1..n |-> text]

\* A text of 80 words, 23 of them different.
LongText ==
    LET words == <<"I", "am", "agree", "disagree", "is", "consists", "discuss",
                   "about", "the", "running", "made", "make", "fun", "advice",
                   "to", "for", "him", "look", "forward", "meeting", "see",
                   "cat", "dog">>
    IN  [i \in 1..159 |->
            IF i % 2 = 0 THEN Space
            ELSE IF (i + 1) \div 2 <= 23 THEN words[(i + 1) \div 2] ELSE "dog"]

\* The two sessions of the report's worked examples, and sessions whose
\* quotients lie halfway between two tenths: 7, 1 and 23 words in 20
\* messages, and 23 different words of 80.
ExampleSessions ==
    { << <<"cat", Space, "cat", Space, "dog">> >>,
      << <<"hello", Space, "there">>, <<"hi">> >>,
      Times(7, <<"hi">>) \o Times(13, <<>>),
      Times(1, <<"hi">>) \o Times(19, <<>>),
      Times(1, <<"I", Space, "am", Space, "agree", Space, "hi">>)
          \o Times(19, <<"hi">>),
      << LongText >> }

EvalSessions ==
    UNION {[1..n -> EvalMessages] : n \in 0..MaxMessages} \cup ExampleSessions

\* The turn sequence of a session in which the user spoke the messages: the
\* greeting, then each message and its reply.
RECURSIVE HistoryOf(_)
HistoryOf(messages) ==
    IF messages = <<>> THEN <<Turn("assistant", <<"ok">>)>>
    ELSE HistoryOf(SubSeq(messages, 1, Len(messages) - 1))
            \o <<Turn("user", messages[Len(messages)]),
                 Turn("assistant", <<"ok">>)>>

InitEval ==
    \E messages \in EvalSessions :
        /\ conversation_history = HistoryOf(messages)
        /\ user_profile = [EmptyProfile("Intermediate") EXCEPT
                              !.transcriptions = messages]
        /\ resp = NoResponse
        /\ CallsIdle({1})

NextEval ==
    \E t \in Threads :
        \/ EndReceive(t)
        \/ EndTest(t)
        \/ EndCollect(t)
        \/ EndAnswer(t)

SpecEval == InitEval /\ [][NextEval]_vars

----------------------------------------------------------------------------
(* One call of get_llm_response, attempt by attempt *)

\* The outcome of an attempt whose API call (or the reading of its
\* response) raises.
Raises == <<"<raise>">>

\* What one attempt can yield: a message content, or an exception.
AttemptOutcomes == ApiContents \cup {Raises}

\* The pause that is always one second.
wait_time_fixed(attempt) == 1

\* wait_time = 2 ** attempt, in seconds.
wait_time(attempt) == 2 ^ attempt

\* The call starts: the messages are formatted and the loop is entered.
\* outcomes[k] is what the k-th API call would yield.
LlmStart ==
    /\ llm.pc = "idle"
    /\ \E outcomes \in [1..max_retries -> AttemptOutcomes] :
           llm' = [LlmIdle EXCEPT !.pc = "attempt", !.outcomes = outcomes]
    /\ UNCHANGED <<session, tts, threads, served>>

\* One pass of the loop body: the API is called; a completion is returned
\* at once, an exception enters the handler of the attempt.
LlmAttempt ==
    /\ llm.pc = "attempt"
    /\ LET outcome == llm.outcomes[llm.attempt + 1]
       IN  llm' = IF outcome = Raises
                    THEN [llm EXCEPT !.calls = @ + 1, !.pc = "except"]
                    ELSE [llm EXCEPT !.calls = @ + 1, !.pc = "returned",
                                     !.result = outcome]
    /\ UNCHANGED <<session, tts, threads, served>>

\* The handler of a failed attempt: sleep and go round again, or raise
\* to the outer handler after the last attempt.
LlmExcept ==
    /\ llm.pc = "except"
    /\ llm' = IF llm.attempt < max_retries - 1
                THEN [llm EXCEPT !.sleeps = Append(@, wait_time(llm.attempt)),
                                 !.attempt = @ + 1, !.pc = "attempt"]
                ELSE [llm EXCEPT !.pc = "outer_except"]
    /\ UNCHANGED <<session, tts, threads, served>>

\* The outer handler returns the fixed apology.
LlmOuterExcept ==
    /\ llm.pc = "outer_except"
    /\ llm' = [llm EXCEPT !.pc = "returned", !.result = Fallback]
    /\ UNCHANGED <<session, tts, threads, served>>

NextLlm == LlmStart \/ LlmAttempt \/ LlmExcept \/ LlmOuterExcept

SpecLlm == Init /\ [][NextLlm]_vars

----------------------------------------------------------------------------
(* One call of text_to_speech, statement by statement *)

\* The payloads text_to_speech can return: the encoded speech, the encoded
\* fallback tone (always the same 440 Hz second), and the empty string.
Speech == "speech"
Tone == "tone"
Empty == ""

\* Status codes the speech API can answer with.
Statuses == {200, 204, 404, 503}

\* The statements of the primary path that can raise: the request, the
\* mp3 file, the wav file, sf.read, sf.write, the encoding, the clean-up.
PrimarySteps == 1..7

\* The statements of the fallback that can raise: the tone, the wav file,
\* wavfile.write, the encoding, the clean-up.
ToneSteps == 1..5

\* The status test that takes every 2xx answer for audio.
StatusOkAny2xx(status) == status \in 200..299

\* response.status_code == 200
StatusOk(status) == status = 200

\* The call starts.  The k-th statement of the primary path raises when
\* primary_raises = k, the k-th of the fallback when tone_raises = k;
\* 0 is no failure.
TtsStart ==
    /\ tts.pc = <<"idle", 0>>
    /\ \E status \in Statuses, primary_raises \in {0} \cup PrimarySteps,
          tone_raises \in {0} \cup ToneSteps :
           tts' = [TtsIdle EXCEPT !.pc = <<"primary", 1>>, !.status = status,
                                  !.primary_raises = primary_raises,
                                  !.tone_raises = tone_raises]
    /\ UNCHANGED <<session, llm, threads, served>>

\* requests.get and the test of the status code.
TtsGet ==
    /\ tts.pc = <<"primary", 1>>
    /\ tts' = [tts EXCEPT !.pc =
                  IF tts.primary_raises = 1 THEN <<"except", 0>>
                  ELSE IF StatusOk(tts.status) THEN <<"primary", 2>>
                  ELSE <<"tone", 1>>]
    /\ UNCHANGED <<session, llm, threads, served>>

\* One statement of the conversion of the answer to an encoded wav; the
\* last one is followed by the return of the encoded speech.
TtsConvert ==
    /\ \E k \in PrimarySteps \ {1} :
          /\ tts.pc = <<"primary", k>>
          /\ tts' = IF tts.primary_raises = k
                      THEN [tts EXCEPT !.pc = <<"except", 0>>]
                      ELSE IF k + 1 \in PrimarySteps
                      THEN [tts EXCEPT !.pc = <<"primary", k + 1>>]
                      ELSE [tts EXCEPT !.pc = <<"returned", 0>>, !.result = Speech]
    /\ UNCHANGED <<session, llm, threads, served>>

\* The handler of the primary path calls the fallback.
TtsExcept ==
    /\ tts.pc = <<"except", 0>>
    /\ tts' = [tts EXCEPT !.pc = <<"tone", 1>>]
    /\ UNCHANGED <<session, llm, threads, served>>

\* One statement of _generate_fallback_speech: its own handler returns
\* the empty string, the last statement is followed by the return of the
\* encoded tone.
TtsTone ==
    /\ \E k \in ToneSteps :
          /\ tts.pc = <<"tone", k>>
          /\ tts' = IF tts.tone_raises = k
                      THEN [tts EXCEPT !.pc = <<"returned", 0>>, !.result = Empty]
                      ELSE IF k + 1 \in ToneSteps
                      THEN [tts EXCEPT !.pc = <<"tone", k + 1>>]
                      ELSE [tts EXCEPT !.pc = <<"returned", 0>>, !.result = Tone]
    /\ UNCHANGED <<session, llm, threads, served>>

NextTts == TtsStart \/ TtsGet \/ TtsConvert \/ TtsExcept \/ TtsTone

SpecTts == Init /\ [][NextTts]_vars


----------------------------------------------------------------------------
(* Properties *)

\* C1 to C12, C14, C15 and C20 are about requests handled one at a time,
\* the case the specification assumes: SpecSerial.  C16 is about requests
\* handled in several threads: Spec.

tasks == user_profile.task_responses

Assigned(d) == {i \in 1..Len(d) : d[i].status = "assigned"}

\* No request is in progress.
Quiescent == \A t \in Workers : threads[t].pc = "idle"

\* The store when the request of the one worker arrived; for a request
\* that is answered in the step in which it arrives, the store before the
\* step.
Before ==
    IF arrived[1] = <<>> THEN <<conversation_history, user_profile>>
    ELSE arrived[1][1]

BeforeHistory == Before[1]

BeforeProfile == Before[2]

\* A step in which process_audio returns its 200 answer.
ProcessedStep == resp'.op = "process_audio" /\ resp'.status = 200

LastTurn(history) == history[Len(history)]

\* C1 (I1, P2): in every reachable state at most one task of
\* user_profile["task_responses"] has status "assigned".
C1_AtMostOneAssigned == Cardinality(Assigned(tasks)) <= 1

\* A second task was assigned after the first one was completed.
C1_Witness ==
    /\ Len(tasks) >= 2
    /\ Cardinality(Assigned(tasks)) = 1
    /\ \E i \in 1..Len(tasks) : tasks[i].status = "completed"

\* C2 (I4): the turn sequence strictly alternates roles and begins with an
\* assistant turn; a first turn with role user is never recorded.
C2_AlternatesFromAssistant ==
    \A i \in 1..Len(conversation_history) :
        conversation_history[i].role =
            IF i % 2 = 1 THEN "assistant" ELSE "user"

\* C3 (P1): after a set_level request with a valid level the profile holds
\* that level with no transcription and no task, and the turn sequence is
\* exactly the greeting, an assistant turn.
C3_SetLevelResets ==
    (resp.op = "set_level" /\ resp.status = 200) =>
        /\ resp.prompt.level \in ValidLevels
        /\ user_profile.level = resp.prompt.level
        /\ user_profile.transcriptions = <<>>
        /\ user_profile.task_responses = <<>>
        /\ conversation_history = <<Turn("assistant", resp.response)>>

\* set_level has answered 200 for a valid level and the store holds only
\* the greeting.
C3_Witness ==
    /\ resp.op = "set_level" /\ resp.status = 200
    /\ user_profile.level = "Advanced"
    /\ Len(conversation_history) = 1

\* C4 (P8): an utterance processed while a task is assigned completes that
\* task and no other, with the utterance as its response, and the prompt of
\* the upcoming assistant turn is the feedback variant; with no task
\* assigned the routing changes no task and the prompt is the base variant.
C4_RoutingBeforePrompt ==
    [][ProcessedStep =>
          LET old == BeforeProfile.task_responses
              new == user_profile'.task_responses
              said == resp'.transcription
          IN  /\ Len(new) >= Len(old)
              /\ said = conversation_history'[Len(BeforeHistory) + 1].content
              /\ IF Assigned(old) # {}
                 THEN /\ \E i \in Assigned(old) :
                            /\ new[i] = Task(old[i].id, old[i].description,
                                             "completed", <<said>>)
                            /\ \A j \in (1..Len(old)) \ {i} : new[j] = old[j]
                      /\ resp'.prompt.variant = "feedback"
                 ELSE /\ \A j \in 1..Len(old) : new[j] = old[j]
                      /\ resp'.prompt.variant = "base"
       ]_vars

\* A task response was routed and answered under the feedback prompt.
C4_Witness ==
    /\ resp.op = "process_audio" /\ resp.status = 200
    /\ resp.prompt.variant = "feedback"
    /\ \E i \in 1..Len(tasks) :
          /\ tasks[i].status = "completed"
          /\ tasks[i].response = <<resp.transcription>>

\* C5 (P6): the composed prompt holds the "TASK:" directive exactly when the
\* turn is no task completion, the turn sequence holds at least 4 entries
\* when the prompt is composed (the new user turn included) and fewer than
\* 2 tasks were ever created in the session.
C5_DirectiveEligibility ==
    [][ProcessedStep =>
          LET completion == Assigned(BeforeProfile.task_responses) # {}
              turnCount == Len(BeforeHistory) + 1
              taskCount == Len(BeforeProfile.task_responses)
          IN  /\ resp'.prompt.level = BeforeProfile.level
              /\ resp'.prompt.directive <=>
                    (~completion /\ turnCount >= 4 /\ taskCount < 2)
       ]_vars

\* The cap decided: an utterance that completes no task was answered in a
\* session of at least 4 turns that already had 2 tasks, and the prompt
\* held no directive.
C5_Witness ==
    /\ resp.op = "process_audio" /\ resp.status = 200
    /\ resp.prompt.variant = "base" /\ ~resp.prompt.directive
    /\ ~resp.routed /\ ~Contains(resp.raw)
    /\ Len(tasks) = 2 /\ Assigned(tasks) = {}
    /\ Len(conversation_history) >= 6

\* C6: the task mapping never holds more than 2 tasks, whatever the chat
\* API returns.
C6_AtMostTwoTasks == Len(tasks) <= 2

\* C7 (P7): a response holding the sentinel is split at its first
\* occurrence: the recorded reply is the trimmed text before it and the new
\* task's description is the trimmed whole text after it, status assigned,
\* no response; a response without the sentinel is recorded whole and
\* creates no task.
C7_SplitAtFirstSentinel ==
    [][ProcessedStep =>
          LET old == BeforeProfile.task_responses
              new == user_profile'.task_responses
              raw == resp'.raw
              reply == LastTurn(conversation_history').content
          IN  IF Contains(raw)
              THEN /\ reply = Strip(BeforeFirst(raw))
                   /\ resp'.response = reply
                   /\ Len(new) = Len(old) + 1
                   /\ new[Len(new)].description = Strip(AfterFirst(raw))
                   /\ new[Len(new)].status = "assigned"
                   /\ new[Len(new)].response = <<>>
              ELSE /\ reply = raw
                   /\ resp'.response = raw
                   /\ Len(new) = Len(old)
       ]_vars

\* C8: no assistant turn recorded or returned holds the sentinel, the
\* greeting of set_level included.
C8_NoSentinelInAssistantTurns ==
    /\ \A i \in 1..Len(conversation_history) :
          conversation_history[i].role = "assistant" =>
              ~Contains(conversation_history[i].content)
    /\ resp.op \in {"set_level", "process_audio"} => ~Contains(resp.response)

\* C9 (I2, P3): the k-th task created in a session has identifier k, and
\* creating a task adds a record and leaves the identifier and description
\* of every existing record in place.
C9_TaskIdsIncrease ==
    [][ProcessedStep =>
          LET old == BeforeProfile.task_responses
              new == user_profile'.task_responses
          IN  /\ \A k \in 1..Len(new) : new[k].id = k
              /\ Len(new) = Len(old) + (IF Contains(resp'.raw) THEN 1 ELSE 0)
              /\ \A k \in 1..Len(old) :
                    /\ new[k].id = old[k].id
                    /\ new[k].description = old[k].description
       ]_vars

\* Three tasks were created in one session.
C9_Witness ==
    /\ Len(tasks) >= 3
    /\ \A k \in 1..Len(tasks) : tasks[k].id = k

\* The texts of the turns with role user, in order.
RECURSIVE UserTexts(_)
UserTexts(history) ==
    IF history = <<>> THEN <<>>
    ELSE IF Head(history).role = "user"
         THEN <<Head(history).content>> \o UserTexts(Tail(history))
         ELSE UserTexts(Tail(history))

\* C10 (I3): user_profile["transcriptions"] is, element by element and in
\* order, the texts of the user turns of conversation_history: between two
\* requests, and at every line of a request but the two where one half of a
\* pair of statements has run. Between the two appends of process_audio
\* (lines 84 and 87) the transcription is in the list and its turn is the
\* next statement; between the two assignments of set_level (lines 44 and
\* 45) the history is the new empty list and the profile is replaced by
\* the next statement.
C10_TranscriptionsMirrorUserTurns ==
    CASE threads[1].pc = "line 87" ->
             user_profile.transcriptions =
                 Append(UserTexts(conversation_history),
                        threads[1].transcription)
      [] threads[1].pc = "line 45" ->
             conversation_history = <<>>
      [] OTHER ->
             user_profile.transcriptions = UserTexts(conversation_history)

\* Two different utterances were recorded in a session begun by set_level.
C10_Witness ==
    /\ Quiescent
    /\ user_profile.level \in ValidLevels
    /\ Len(user_profile.transcriptions) >= 2
    /\ user_profile.transcriptions[1] # user_profile.transcriptions[2]

\* The step of set_level that begins a new session: lines 45-49.
ResetStep ==
    \E t \in Workers : threads[t].pc = "line 45" /\ threads'[t].pc = "line 59"

\* C11 (I5): within a session a completed task keeps its status, response
\* and description under every later statement of every request; no task
\* is completed twice.
C11_CompletedIsTerminal ==
    [][~ResetStep =>
          LET old == user_profile.task_responses
              new == user_profile'.task_responses
          IN  \A i \in 1..Len(old) :
                  old[i].status = "completed" =>
                      /\ i <= Len(new)
                      /\ new[i] = old[i]
       ]_vars

\* A completed task still holds the response of an earlier utterance after a
\* later, different utterance was processed.
C11_Witness ==
    /\ resp.op = "process_audio" /\ resp.status = 200
    /\ \E i \in 1..Len(tasks) :
          /\ tasks[i].status = "completed"
          /\ tasks[i].response # <<resp.transcription>>

\* C12: when the transcriber fails the request answers with an error and
\* the store is as before the request: no transcription, no turn, no task
\* change.
C12_TranscriberFailureCommitsNothing ==
    [][(resp'.op = "process_audio" /\ resp'.error = TranscriptionError) =>
          /\ resp'.status = 500
          /\ conversation_history' = BeforeHistory
          /\ user_profile' = BeforeProfile
       ]_vars

\* The transcriber failed while a task was waiting for its response.
C12_Witness ==
    /\ resp.op = "process_audio" /\ resp.error = TranscriptionError
    /\ Assigned(tasks) # {}
    /\ user_profile.transcriptions # <<>>

\* C20: every request answered with an error (400 or 500) leaves
\* conversation_history and user_profile as they were before it.
C20_ErrorsCommitNothing ==
    [][resp'.status \in {400, 500} =>
          /\ conversation_history' = BeforeHistory
          /\ user_profile' = BeforeProfile
       ]_vars

\* The report of the last request, an end_conversation.
report == resp.response[1]

Evaluated == resp.op = "end_conversation"

\* C14 (P9): end_conversation returns the "nothing to evaluate" result, and
\* sends nothing to the chat API, exactly when the turn sequence holds no
\* user turn; with a user turn it returns a report.
C14_ErrorIffNoUserTurn ==
    Evaluated =>
        /\ report.error # "" <=> UserTexts(conversation_history) = <<>>
        /\ report.error # "" => resp.prompt = NoPrompt /\ report = ErrorReport
        /\ report.error = "" =>
              /\ resp.prompt = EvaluationPrompt(user_profile.level)
              /\ report.level = user_profile.level
              /\ report.detailed_evaluation = resp.raw

\* The error result was returned for a session that holds only a greeting.
C14_Witness ==
    /\ Evaluated /\ report.error # ""
    /\ Len(conversation_history) >= 1
    /\ user_profile.level \in ValidLevels

\* C15: end_conversation leaves the level, the transcriptions, the task
\* mapping and the turn sequence as they were, report or error.
C15_EvaluationReadsOnly ==
    [][resp'.op = "end_conversation" =>
          /\ conversation_history' = BeforeHistory
          /\ user_profile' = BeforeProfile
       ]_vars

\* A report was returned for a session with a task.
C15_Witness ==
    /\ Evaluated /\ report.error = ""
    /\ tasks # <<>>
    /\ user_profile.transcriptions # <<>>

\* The descriptions in a list.
Range(list) == {list[i] : i \in 1..Len(list)}

\* C17: the list of common mistakes has no duplicates and at most 3
\* entries, each the description of a pattern that matches the joined user
\* text; when at most 3 descriptions match, all of them are in the list.
C17_CommonMistakes ==
    (Evaluated /\ report.error = "") =>
        LET list == report.common_mistakes
            matched == MatchedDescriptions(Join(UserTexts(conversation_history)))
        IN  /\ \A i, j \in 1..Len(list) : list[i] = list[j] => i = j
            /\ Len(list) <= 3
            /\ Range(list) \subseteq matched
            /\ Cardinality(matched) <= 3 => Range(list) = matched

\* Four patterns match and three descriptions were returned.
C17_Witness ==
    /\ Evaluated /\ report.error = ""
    /\ Cardinality(MatchedDescriptions(Join(UserTexts(conversation_history)))) = 4
    /\ Len(report.common_mistakes) = 3

\* The number of words of a list of messages.
RECURSIVE TotalWords(_)
TotalWords(messages) ==
    IF messages = <<>> THEN 0
    ELSE Len(SelectSeq(Head(messages), IsWord)) + TotalWords(Tail(messages))

\* The words of a list of messages, case ignored.
DistinctWords(messages) ==
    UNION {{Lower(messages[i][j]) :
               j \in {b \in 1..Len(messages[i]) : IsWord(messages[i][b])}} :
           i \in 1..Len(messages)}

\* tenths is a tenth nearest to n / d.
NearestTenth(tenths, n, d) ==
    /\ 2 * (tenths * d - 10 * n) <= d
    /\ 2 * (10 * n - tenths * d) <= d

\* C18 (P4, P5): wordCount is the number of words of the user turns,
\* avgWordsPerTurn is wordCount / turns rounded to 1 decimal, and
\* vocabularyRichness is distinct words / wordCount x 100 rounded to 1
\* decimal, 0 without words: 66.7 for "cat cat dog", 1.5 for "hello there"
\* and "hi".
C18_Metrics ==
    (Evaluated /\ report.error = "") =>
        LET messages == UserTexts(conversation_history)
            total == TotalWords(messages)
            distinct == Cardinality(DistinctWords(messages))
        IN  /\ report.word_count = total
            /\ NearestTenth(report.avg_words_per_message, total, Len(messages))
            /\ IF total = 0 THEN report.vocabulary_richness = 0
               ELSE NearestTenth(report.vocabulary_richness, 100 * distinct, total)
            /\ messages = << <<"cat", Space, "cat", Space, "dog">> >> =>
                  report.vocabulary_richness = 667
            /\ messages = << <<"hello", Space, "there">>, <<"hi">> >> =>
                  report.avg_words_per_message = 15

\* The report of two turns with 7 words, 6 of them distinct: 3.5 words a
\* turn and a richness of 85.7.
C18_Witness ==
    /\ Evaluated /\ report.error = ""
    /\ Len(user_profile.transcriptions) = 2
    /\ report.word_count = 7
    /\ report.avg_words_per_message = 35
    /\ report.vocabulary_richness = 857

\* The attempts that raise before the first one that succeeds.
RECURSIVE LeadingFailures(_)
LeadingFailures(outcomes) ==
    IF outcomes = <<>> \/ Head(outcomes) # Raises THEN 0
    ELSE 1 + LeadingFailures(Tail(outcomes))

\* The pauses of the backoff, in seconds, in the order they are taken.
Backoff == <<1, 2>>

\* C13: get_llm_response never raises to its caller: the call always ends
\* by returning.  It calls the API at most 3 times and stops at the first
\* success, whose content it returns; it sleeps 1 second after the first
\* failure, 2 seconds after the second and not after the third; it returns
\* the fallback exactly when all 3 attempts failed.
C13_RetryThenFallback ==
    /\ llm.pc \notin {"idle", "returned"} => ENABLED NextLlm
    /\ llm.calls <= 3
    /\ llm.pc = "returned" =>
          LET failures == LeadingFailures(llm.outcomes)
          IN  /\ llm.calls = Min(failures + 1, 3)
              /\ llm.sleeps = SubSeq(Backoff, 1, Min(failures, 2))
              /\ llm.result = Fallback <=> failures = 3
              /\ failures < 3 => llm.result = llm.outcomes[failures + 1]
              /\ llm.result = get_llm_response(failures,
                                  llm.outcomes[Min(failures + 1, 3)])

\* Two attempts failed, two pauses were taken and the third attempt
\* returned a text.
C13_Witness ==
    /\ llm.pc = "returned"
    /\ llm.calls = 3
    /\ llm.sleeps = Backoff
    /\ llm.result \in ApiTexts

\* The call of text_to_speech is over.
TtsReturned == tts.pc = <<"returned", 0>>

\* The synthesis failed: the status is not 200, or a statement that the
\* primary path executes raises.
SynthesisFailed ==
    \/ tts.status # 200
    \/ tts.primary_raises \in PrimarySteps

\* C19 as stated: non-empty fallback tone whenever synthesis fails.
\* text_to_speech never raises to its caller, and whenever the synthesis
\* fails it returns the fallback tone, a non-empty payload.
C19_ToneOnEveryFailure ==
    /\ tts.pc \notin {<<"idle", 0>>, <<"returned", 0>>} => ENABLED NextTts
    /\ TtsReturned /\ SynthesisFailed => tts.result = Tone /\ tts.result # ""

\* C19, amended: text_to_speech never raises to its caller.  When the
\* synthesis fails it returns the fallback tone if the generation of the
\* tone succeeds, and the empty string if the generation of the tone
\* raises too; when the synthesis succeeds it returns the encoded speech.
C19_ToneUnlessToneFails ==
    /\ tts.pc \notin {<<"idle", 0>>, <<"returned", 0>>} => ENABLED NextTts
    /\ TtsReturned /\ SynthesisFailed =>
          tts.result = IF tts.tone_raises = 0 THEN Tone ELSE Empty
    /\ TtsReturned /\ ~SynthesisFailed => tts.result = Speech

\* The speech API answered 503 and the call returned the tone.
C19_Witness ==
    /\ TtsReturned
    /\ tts.status = 503
    /\ tts.primary_raises = 0
    /\ tts.result = Tone

\* C16: with requests handled concurrently the mutations of the store are
\* serialized, so that once the requests have been answered the store is
\* one that the same requests leave when run one after the other: at most
\* one task is assigned (I1) and the transcriptions are the texts of the
\* user turns, in order (I3).
C16_InterleavingKeepsInvariants ==
    Quiescent =>
        /\ Cardinality(Assigned(tasks)) <= 1
        /\ user_profile.transcriptions = UserTexts(conversation_history)

====
